---- MODULE Spec2Model ----
(***************************************************************************)
(* Model of the pose-model assembly layer of DeepLabCut's PyTorch engine:  *)
(*   models/model.py             PoseModel.get_loss, PoseModel.build,      *)
(*                               filter_state_dict                         *)
(*   models/heads/simple_head.py HeatmapHead.convert_weights, DeconvModule *)
(*   models/detectors/base.py    _build_detector                           *)
(*                                                                         *)
(* Python strings are TLA+ strings (TLC evaluates Len, \o and SubSeq on    *)
(* them), so prefix tests, splitting and key formatting are computed       *)
(* character by character as the code computes them.  A Python dict is a   *)
(* sequence of <<key, value>> pairs with pairwise distinct keys, in        *)
(* insertion order.  A tensor is a sequence (a bias) or a sequence of rows *)
(* (a weight: dimension 0, then dimension 1; the trailing kernel           *)
(* dimensions are carried along by every indexing the code does and are    *)
(* not represented).  Index tensors hold 0-based indices, as in the code.  *)
(***************************************************************************)
EXTENDS Integers, Sequences, FiniteSets, TLC

VARIABLES
    pc,                 \* position of the call being modelled
    state_dict,         \* the state dict handed to the operation (snapshot["model"])
    \* filter_state_dict
    module,             \* its `module` argument
    filtered,           \* its return value
    \* DeconvModule.__init__
    channels,           \* its arguments
    kernel_size,
    strides,
    final_conv,
    self_deconv_layers, \* self.deconv_layers
    self_final_conv,    \* self.final_conv
    error,              \* the exception the call raised, if any
    \* HeatmapHead.convert_weights, DeconvModule.convert_weights
    module_prefix,      \* their arguments
    conversion,
    locref_conversion,  \* the local of HeatmapHead.convert_weights
    converted,          \* the state dict returned
    \* PoseModel.get_loss
    head_losses,        \* per head, in self.heads order: what head.get_loss returns
    losses,             \* the mapping returned
    \* PoseModel.build
    caller_cfg,         \* the configuration as the caller passed it
    cfg,                \* the same object during the call (build writes into it)
    weight_init,
    backbone,           \* the configuration BACKBONES.build was called with
    neck,               \* the configuration NECKS.build was called with, or None
    heads,              \* per head built so far: what HEADS.build was called with
    criterions_built,   \* per head built so far: the CRITERIONS.build calls
    aggregators_built,  \* per head built so far: the LOSS_AGGREGATORS.build calls
    model,              \* the assembled PoseModel, or None
    loaded,             \* per sub-module: the state dict load_state_dict was given
    \* _build_detector (its cfg and weight_init are the variables above)
    kwargs,             \* the other parameters given by the Registry
    modelzoo,           \* the snapshot file stored under each path
    detector,           \* the detector built, or None
    snapshot_path,      \* the local snapshot_path, or None
    snapshot            \* the local snapshot, or None

commonVars == <<pc, state_dict>>
filterVars == <<module, filtered>>
deconvVars == <<channels, kernel_size, strides, final_conv, self_deconv_layers,
                self_final_conv, error>>
convertVars == <<module_prefix, conversion, locref_conversion, converted>>
lossVars == <<head_losses, losses>>
buildVars == <<caller_cfg, cfg, weight_init, backbone, neck, heads, criterions_built,
               aggregators_built, model, loaded>>
detectorVars == <<kwargs, modelzoo, detector, snapshot_path, snapshot>>
vars == <<commonVars, filterVars, deconvVars, convertVars, lossVars, buildVars,
          detectorVars>>

\* Python's None where a string is expected, and where an object is expected
NoValue == "None"
None == [type |-> "None"]

\* the variables of the operations a specification does not exercise
FilterIdle == module = NoValue /\ filtered = NoValue
DeconvIdle ==
    /\ channels = NoValue /\ kernel_size = NoValue /\ strides = NoValue
    /\ final_conv = NoValue /\ self_deconv_layers = NoValue
    /\ self_final_conv = NoValue /\ error = NoValue
ConvertIdle ==
    /\ module_prefix = NoValue /\ conversion = NoValue
    /\ locref_conversion = NoValue /\ converted = NoValue
LossIdle == head_losses = NoValue /\ losses = NoValue
BuildIdle ==
    /\ caller_cfg = NoValue /\ cfg = NoValue /\ weight_init = NoValue
    /\ backbone = NoValue /\ neck = NoValue /\ heads = NoValue
    /\ criterions_built = NoValue /\ aggregators_built = NoValue
    /\ model = NoValue /\ loaded = NoValue
DetectorIdle ==
    /\ kwargs = NoValue /\ modelzoo = NoValue /\ detector = NoValue
    /\ snapshot_path = NoValue /\ snapshot = NoValue

----------------------------------------------------------------------------
(* Python str                                                              *)

\* k.startswith(m)
StartsWith(k, m) == Len(k) >= Len(m) /\ SubSeq(k, 1, Len(m)) = m

\* position of the first "." of k, 0 when it has none
FirstDot(k) ==
    IF \E i \in 1..Len(k) : SubSeq(k, i, i) = "."
    THEN CHOOSE i \in 1..Len(k) :
            /\ SubSeq(k, i, i) = "."
            /\ \A j \in 1..(i - 1) : SubSeq(k, j, j) # "."
    ELSE 0

\* k.split(".")
RECURSIVE Split(_)
Split(k) ==
    IF FirstDot(k) = 0
    THEN <<k>>
    ELSE <<SubSeq(k, 1, FirstDot(k) - 1)>> \o Split(SubSeq(k, FirstDot(k) + 1, Len(k)))

\* ".".join(segs)
RECURSIVE Join(_)
Join(segs) ==
    IF Len(segs) = 0 THEN ""
    ELSE IF Len(segs) = 1 THEN segs[1]
    ELSE segs[1] \o "." \o Join(Tail(segs))

----------------------------------------------------------------------------
(* Python dict                                                             *)

DictKeys(d) == {d[i][1] : i \in 1..Len(d)}

DictHas(d, k) == k \in DictKeys(d)

DictGet(d, k) == d[CHOOSE i \in 1..Len(d) : d[i][1] = k][2]

\* d[k] = v: an existing key keeps its place, a new key goes last
DictSet(d, k, v) ==
    IF DictHas(d, k)
    THEN [i \in 1..Len(d) |-> IF d[i][1] = k THEN <<k, v>> ELSE d[i]]
    ELSE Append(d, <<k, v>>)

\* the mapping a dict denotes (dict equality ignores insertion order)
AsMap(d) == [k \in DictKeys(d) |-> DictGet(d, k)]

----------------------------------------------------------------------------
(* model.py: filter_state_dict                                             *)

\* the comprehension's condition: `if k.startswith(module)`
KeepsKey(k, m) == StartsWith(k, m)

\* the comprehension's key: ".".join(k.split(".")[1:])
StripFirstSegment(k) == Join(Tail(Split(k)))

\* the dict comprehension, entry by entry in the state dict's order
filter_state_dict(sd, m) ==
    LET acc[i \in 0..Len(sd)] ==
            IF i = 0 THEN <<>>
            ELSE IF KeepsKey(sd[i][1], m)
                 THEN DictSet(acc[i - 1], StripFirstSegment(sd[i][1]), sd[i][2])
                 ELSE acc[i - 1]
    IN acc[Len(sd)]

\* ---- inputs of the filter_state_dict specification
MaxEntries == 3

FilterKeys ==
    {"backbone.a", "backbonex.b", "head.c", "backbone.conv.weight",
     "heads.bodypart.w", "heads.bodypart_unique.w", "neck.conv.weight"}

FilterModules == {"backbone", "neck", "head", "heads"}

\* state dicts of at most MaxEntries entries with distinct keys; entry i holds value i
FilterStateDicts ==
    UNION {
        { [i \in 1..n |-> <<ks[i], i>>] :
            ks \in {s \in [1..n -> FilterKeys] : \A i, j \in 1..n : i # j => s[i] # s[j]} }
        : n \in 0..MaxEntries }

FilterInit ==
    /\ pc = "call"
    /\ state_dict \in FilterStateDicts
    /\ module \in FilterModules
    /\ filtered = NoValue
    /\ DeconvIdle /\ ConvertIdle /\ LossIdle /\ BuildIdle /\ DetectorIdle

FilterStateDict ==
    /\ pc = "call"
    /\ filtered' = filter_state_dict(state_dict, module)
    /\ pc' = "done"
    /\ UNCHANGED <<state_dict, module, deconvVars, convertVars, lossVars, buildVars, detectorVars>>

FilterNext == FilterStateDict

SpecFilter == FilterInit /\ [][FilterNext]_vars

\* C1: filter_state_dict returns exactly the entries whose first dot-separated
\* key segment equals `module`, re-keyed with that segment removed; a key that
\* merely starts with `module` as a substring is never retained.
C1_FirstSegmentOnly ==
    pc = "done" =>
        LET kept == {k \in DictKeys(state_dict) : Split(k)[1] = module}
        IN /\ DictKeys(filtered) = {StripFirstSegment(k) : k \in kept}
           /\ \A k \in kept : DictGet(filtered, StripFirstSegment(k)) = DictGet(state_dict, k)

----------------------------------------------------------------------------
(* simple_head.py: DeconvModule.__init__ and DeconvModule._make_layers     *)

ConvTranspose2d(in_c, out_c, k, s) ==
    [type |-> "ConvTranspose2d", in_channels |-> in_c, out_channels |-> out_c,
     kernel_size |-> k, stride |-> s]

ReLU == [type |-> "ReLU"]

Identity == [type |-> "Identity"]

Sequential(layers) == [type |-> "Sequential", layers |-> layers]

Conv2d(in_c, out_c, k, s) ==
    [type |-> "Conv2d", in_channels |-> in_c, out_channels |-> out_c,
     kernel_size |-> k, stride |-> s]

MinOf(S) == CHOOSE x \in S : \A y \in S : x <= y

\* layers[:-1]
DropLast(layers) == SubSeq(layers, 1, Len(layers) - 1)

\* a faulty variant: no activation between the layers
MakeLayersMissingActivation(in_c, out_cs, ks, ss) ==
    LET n == MinOf({Len(out_cs), Len(ks), Len(ss)})
        loop[i \in 0..n] ==
            IF i = 0 THEN [layers |-> <<>>, in_channels |-> in_c]
            ELSE [layers |-> Append(loop[i - 1].layers,
                        ConvTranspose2d(loop[i - 1].in_channels, out_cs[i], ks[i], ss[i])),
                  in_channels |-> out_cs[i]]
    IN loop[n].layers

\* the loop over zip(out_channels, kernel_sizes, strides), then `return layers[:-1]`
_make_layers(in_c, out_cs, ks, ss) ==
    LET n == MinOf({Len(out_cs), Len(ks), Len(ss)})
        loop[i \in 0..n] ==
            IF i = 0 THEN [layers |-> <<>>, in_channels |-> in_c]
            ELSE [layers |-> loop[i - 1].layers \o
                        <<ConvTranspose2d(loop[i - 1].in_channels, out_cs[i], ks[i], ss[i]),
                          ReLU>>,
                  in_channels |-> out_cs[i]]
    IN DropLast(loop[n].layers)

\* a faulty variant: only the kernel sizes' length is checked
LengthsAgreeKernelsOnly(ch, ks, ss) == Len(ch) = Len(ks) + 1

\* len(channels) == len(kernel_size) + 1 == len(strides) + 1  (a chained comparison)
LengthsAgree(ch, ks, ss) ==
    /\ Len(ch) = Len(ks) + 1
    /\ Len(ks) + 1 = Len(ss) + 1

\* ---- inputs of the construction specification
MaxLayers == 2

ChannelCounts == {2, 3}
KernelSizes == {3, 4}
Strides == {2}

SeqsUpTo(S, n) == UNION {[1..m -> S] : m \in 0..n}

FinalConvConfigs == {None, [out_channels |-> 3, kernel_size |-> 1]}

DeconvInit ==
    /\ pc = "call"
    /\ state_dict = NoValue
    /\ channels \in SeqsUpTo(ChannelCounts, MaxLayers + 1)
    /\ kernel_size \in SeqsUpTo(KernelSizes, MaxLayers + 1)
    /\ strides \in SeqsUpTo(Strides, MaxLayers + 1)
    /\ final_conv \in FinalConvConfigs
    /\ self_deconv_layers = None
    /\ self_final_conv = None
    /\ error = NoValue
    /\ FilterIdle /\ ConvertIdle /\ LossIdle /\ BuildIdle /\ DetectorIdle

\* what __init__ leaves in self.deconv_layers and self.final_conv once the lengths
\* have been accepted
DeconvModule(ch, ks, ss, fc) ==
    [deconv_layers |->
        IF Len(ks) > 0
        THEN Sequential(_make_layers(ch[1], Tail(ch), ks, ss))
        ELSE Identity,
     final_conv |->
        IF fc # None
        THEN Conv2d(ch[Len(ch)], fc.out_channels, fc.kernel_size, 1)
        ELSE Identity]

\* DeconvModule(channels, kernel_size, strides, final_conv)
DeconvModuleNew ==
    /\ pc = "call"
    /\ IF ~LengthsAgree(channels, kernel_size, strides)
       THEN /\ error' = "ValueError"
            /\ UNCHANGED <<self_deconv_layers, self_final_conv>>
       ELSE /\ self_deconv_layers' =
                    DeconvModule(channels, kernel_size, strides, final_conv).deconv_layers
            /\ self_final_conv' =
                    DeconvModule(channels, kernel_size, strides, final_conv).final_conv
            /\ UNCHANGED error
    /\ pc' = "done"
    /\ UNCHANGED <<state_dict, channels, kernel_size, strides, final_conv,
                   filterVars, convertVars, lossVars, buildVars, detectorVars>>

DeconvNext == DeconvModuleNew

SpecDeconv == DeconvInit /\ [][DeconvNext]_vars

\* C6: construction fails with a configuration error, building no layers, for
\* every (channels, kernel_size, strides) with len(channels) # len(kernel_size)+1
\* or len(channels) # len(strides)+1, and succeeds whenever both equalities hold.
C6_MismatchedLengthsFail ==
    pc = "done" =>
        IF Len(channels) # Len(kernel_size) + 1 \/ Len(channels) # Len(strides) + 1
        THEN /\ error = "ValueError"
             /\ self_deconv_layers = None
             /\ self_final_conv = None
        ELSE /\ error = NoValue
             /\ self_deconv_layers # None
             /\ self_final_conv # None

\* both outcomes have happened: a rejected config whose kernel sizes fit but whose
\* strides do not, and an accepted one
C6_Witness ==
    /\ pc = "done"
    /\ error = "ValueError"
    /\ Len(channels) = Len(kernel_size) + 1
    /\ Len(channels) # Len(strides) + 1

\* C7: for a valid config with L channels the stack holds exactly L-1 transposed
\* convolutions, the i-th mapping channels[i] to channels[i+1] with kernel_size[i]
\* and strides[i], an activation after each but the last (2(L-1)-1 modules); with
\* L-1 = 0 the stack is the identity.
C7_StackShape ==
    (pc = "done" /\ error = NoValue) =>
        LET n == Len(channels) - 1
        IN IF n = 0
           THEN self_deconv_layers = Identity
           ELSE /\ self_deconv_layers.type = "Sequential"
                /\ Len(self_deconv_layers.layers) = 2 * n - 1
                /\ \A i \in 1..n :
                     self_deconv_layers.layers[2 * i - 1] =
                        ConvTranspose2d(channels[i], channels[i + 1],
                                        kernel_size[i], strides[i])
                /\ \A i \in 1..(n - 1) : self_deconv_layers.layers[2 * i] = ReLU

\* a stack of two transposed convolutions with one activation between them
C7_Witness ==
    /\ pc = "done"
    /\ error = NoValue
    /\ Len(channels) = 3
    /\ Len(self_deconv_layers.layers) = 3

----------------------------------------------------------------------------
(* simple_head.py: DeconvModule.convert_weights, HeatmapHead.convert_weights *)

\* a faulty variant: the tensor left as it is
IndexDim0Unconverted(t, conv) == t

\* t[conversion]: dimension 0 indexed by an index tensor
IndexDim0(t, conv) == [i \in 1..Len(conv) |-> t[conv[i] + 1]]

\* t[:, conversion]: dimension 1 indexed by an index tensor
IndexDim1(t, conv) == [r \in 1..Len(t) |-> [i \in 1..Len(conv) |-> t[r][conv[i] + 1]]]

\* the `while ... in state_dict: next_index += 1` scan, from next_index = i
RECURSIVE NextIndex(_, _, _)
NextIndex(sd, prefix, i) ==
    IF DictHas(sd, prefix \o "deconv_layers." \o ToString(i) \o ".weight")
    THEN NextIndex(sd, prefix, i + 1)
    ELSE i

\* DeconvModule.convert_weights(state_dict, module_prefix, conversion)
DeconvConvertWeights(sd, prefix, conv) ==
    IF DictHas(sd, prefix \o "final_conv.weight")
    THEN LET weight_key == prefix \o "final_conv.weight"
             bias_key == prefix \o "final_conv.bias"
             sd1 == DictSet(sd, weight_key, IndexDim0(DictGet(sd, weight_key), conv))
         IN DictSet(sd1, bias_key, IndexDim0(DictGet(sd1, bias_key), conv))
    ELSE LET last_index == NextIndex(sd, prefix, 0) - 1
             weight_key == prefix \o "deconv_layers." \o ToString(last_index) \o ".weight"
             bias_key == prefix \o "deconv_layers." \o ToString(last_index) \o ".bias"
         IN IF last_index >= 0
            THEN LET sd1 == DictSet(sd, weight_key,
                                    IndexDim1(DictGet(sd, weight_key), conv))
                 IN DictSet(sd1, bias_key, IndexDim0(DictGet(sd1, bias_key), conv))
            ELSE sd

\* torch.stack([a, b], dim=1) of two vectors: row i is (a[i], b[i])
StackDim1(a, b) == [i \in 1..Len(a) |-> <<a[i], b[i]>>]

\* .reshape(-1) of a matrix with two columns: row-major
Flatten(m) == [k \in 1..(2 * Len(m)) |-> m[(k + 1) \div 2][((k - 1) % 2) + 1]]

\* a faulty variant: the two halves one after the other (torch.cat)
LocrefConversionConcatenated(conv) ==
    [i \in 1..Len(conv) |-> 2 * conv[i]] \o [i \in 1..Len(conv) |-> 2 * conv[i] + 1]

\* torch.stack([2 * conversion, 2 * conversion + 1], dim=1).reshape(-1)
LocrefConversion(conv) ==
    Flatten(StackDim1([i \in 1..Len(conv) |-> 2 * conv[i]],
                      [i \in 1..Len(conv) |-> 2 * conv[i] + 1]))

\* HeatmapHead.convert_weights(state_dict, module_prefix, conversion)
HeatmapConvertWeights(sd, prefix, conv) ==
    LET sd1 == DeconvConvertWeights(sd, prefix \o "heatmap_head.", conv)
    IN DeconvConvertWeights(sd1, prefix \o "locref_head.", LocrefConversion(conv))

\* ---- the state dict of a HeatmapHead: one weight and one bias per transposed
\* ---- convolution, keyed by its place in the nn.Sequential, then the final
\* ---- convolution's.  Tensor elements are distinct numbers.
Tensor1(tag, n) == [i \in 1..n |-> 100 * tag + i]
Tensor2(tag, rows, cols) == [r \in 1..rows |-> [c \in 1..cols |-> 100 * tag + 10 * r + c]]

LayerEntries(prefix, layers, tag) ==
    LET acc[j \in 0..Len(layers)] ==
            IF j = 0 THEN <<>>
            ELSE IF layers[j].type = "ConvTranspose2d"
                 THEN acc[j - 1] \o
                      << <<prefix \o "deconv_layers." \o ToString(j - 1) \o ".weight",
                           Tensor2(tag + j, layers[j].in_channels, layers[j].out_channels)>>,
                         <<prefix \o "deconv_layers." \o ToString(j - 1) \o ".bias",
                           Tensor1(tag + j, layers[j].out_channels)>> >>
                 ELSE acc[j - 1]
    IN acc[Len(layers)]

DeconvStateDict(prefix, mod, tag) ==
    (IF mod.deconv_layers.type = "Sequential"
     THEN LayerEntries(prefix, mod.deconv_layers.layers, tag)
     ELSE <<>>)
    \o
    (IF mod.final_conv.type = "Conv2d"
     THEN << <<prefix \o "final_conv.weight",
               Tensor2(tag, mod.final_conv.out_channels, mod.final_conv.in_channels)>>,
             <<prefix \o "final_conv.bias", Tensor1(tag, mod.final_conv.out_channels)>> >>
     ELSE <<>>)

\* head: [heatmap_head |-> a DeconvModule, locref_head |-> a DeconvModule or None]
\* tag tells the tensors of one head from those of another
HeatmapHeadStateDict(prefix, head, tag) ==
    DeconvStateDict(prefix \o "heatmap_head.", head.heatmap_head, tag + 10)
    \o
    (IF head.locref_head # None
     THEN DeconvStateDict(prefix \o "locref_head.", head.locref_head, tag + 20)
     ELSE <<>>)

\* ---- inputs of the weight-conversion specification
MaxKeypoints == 3
MaxNewKeypoints == 2

\* wider than any output, as feature maps are
HiddenChannels == 2 * MaxKeypoints

\* a DeconvModule configuration with n transposed convolutions and out_c output
\* channels, with or without a final convolution
DeconvConfig(n, with_final, out_c) ==
    [channels |-> [i \in 1..(n + 1) |->
                      IF i = n + 1 /\ n > 0 /\ ~with_final THEN out_c ELSE HiddenChannels],
     kernel_size |-> [i \in 1..n |-> 3],
     strides |-> [i \in 1..n |-> 2],
     final_conv |-> IF with_final THEN [out_channels |-> out_c, kernel_size |-> 1]
                    ELSE None]

DeconvModules(out_c) ==
    { DeconvModule(c.channels, c.kernel_size, c.strides, c.final_conv) :
        c \in {DeconvConfig(n, f, out_c) : n \in 0..MaxLayers, f \in BOOLEAN} }

\* heads predicting k keypoints: k heatmap channels, 2k location-refinement channels
HeatmapHeads(k) ==
    { [heatmap_head |-> h, locref_head |-> l] :
        h \in DeconvModules(k), l \in {None} \cup DeconvModules(2 * k) }

Conversions(k) == UNION {[1..m -> 0..(k - 1)] : m \in 1..MaxNewKeypoints}

HeadPrefixes == {"", "heads.bodypart."}

ConvertInit ==
    /\ pc = "call"
    /\ module_prefix \in HeadPrefixes
    /\ \E k \in 2..MaxKeypoints :
          /\ state_dict \in {HeatmapHeadStateDict(module_prefix, h, 0) : h \in HeatmapHeads(k)}
          /\ conversion \in Conversions(k)
    /\ locref_conversion = <<>>
    /\ converted = <<>>
    /\ FilterIdle /\ DeconvIdle /\ LossIdle /\ BuildIdle /\ DetectorIdle

\* DeconvModule.convert_weights called on one of the head's two sub-modules
CallDeconvConvertWeights ==
    /\ pc = "call"
    /\ \E sub \in {"heatmap_head.", "locref_head."} :
          /\ module_prefix' = module_prefix \o sub
          /\ converted' = DeconvConvertWeights(state_dict, module_prefix \o sub, conversion)
    /\ pc' = "deconv_done"
    /\ UNCHANGED <<state_dict, conversion, locref_conversion,
                   filterVars, deconvVars, lossVars, buildVars, detectorVars>>

\* HeatmapHead.convert_weights called on the head
CallHeatmapConvertWeights ==
    /\ pc = "call"
    /\ locref_conversion' = LocrefConversion(conversion)
    /\ converted' = HeatmapConvertWeights(state_dict, module_prefix, conversion)
    /\ pc' = "heatmap_done"
    /\ UNCHANGED <<state_dict, module_prefix, conversion,
                   filterVars, deconvVars, lossVars, buildVars, detectorVars>>

ConvertNext == CallDeconvConvertWeights \/ CallHeatmapConvertWeights

SpecConvert == ConvertInit /\ [][ConvertNext]_vars

\* new is old with dimension 0 (dimension 1) re-indexed by the index array a
Reindexed0(new, old, a) ==
    /\ Len(new) = Len(a)
    /\ \A i \in 1..Len(a) : a[i] + 1 \in 1..Len(old) /\ new[i] = old[a[i] + 1]
Reindexed1(new, old, a) ==
    /\ Len(new) = Len(old)
    /\ \A r \in 1..Len(old) :
          /\ Len(new[r]) = Len(a)
          /\ \A i \in 1..Len(a) :
                a[i] + 1 \in 1..Len(old[r]) /\ new[r][i] = old[r][a[i] + 1]

\* k.endswith(s)
EndsWith(k, s) == Len(k) >= Len(s) /\ SubSeq(k, Len(k) - Len(s) + 1, Len(k)) = s

\* s occurs in k
Contains(k, s) == \E i \in 1..(Len(k) - Len(s) + 1) : SubSeq(k, i, i + Len(s) - 1) = s

\* C2: with "<prefix>final_conv.weight" in the state dict, the converted final_conv
\* weight has output dimension M = len(conversion) and the bias length M, with
\* converted[i] = original[conversion[i]] for both, and no deconv_layers entry changes.
C2_FinalConvReindexed ==
    (pc = "deconv_done" /\ DictHas(state_dict, module_prefix \o "final_conv.weight")) =>
        /\ Reindexed0(DictGet(converted, module_prefix \o "final_conv.weight"),
                      DictGet(state_dict, module_prefix \o "final_conv.weight"), conversion)
        /\ Reindexed0(DictGet(converted, module_prefix \o "final_conv.bias"),
                      DictGet(state_dict, module_prefix \o "final_conv.bias"), conversion)
        /\ \A k \in DictKeys(state_dict) :
              Contains(k, "deconv_layers") =>
                  DictHas(converted, k) /\ DictGet(converted, k) = DictGet(state_dict, k)

\* a final convolution of 3 outputs converted to 2 outputs in the order (2, 0),
\* behind transposed convolutions
C2_Witness ==
    /\ pc = "deconv_done"
    /\ DictHas(state_dict, module_prefix \o "final_conv.weight")
    /\ DictHas(state_dict, module_prefix \o "deconv_layers.0.weight")
    /\ Len(DictGet(state_dict, module_prefix \o "final_conv.bias")) = 3
    /\ conversion = <<2, 0>>

\* the index array a has been applied to the sub-module whose keys start with p:
\* one weight and one bias under p are re-indexed by a (the weight along its first
\* or its second dimension), everything else under p is as it was
AppliedTo(p, a) ==
    LET ks == {k \in DictKeys(state_dict) : StartsWith(k, p)}
    IN \/ ks = {}
       \/ \E wk, bk \in ks :
             /\ EndsWith(wk, ".weight")
             /\ EndsWith(bk, ".bias")
             /\ Reindexed0(DictGet(converted, bk), DictGet(state_dict, bk), a)
             /\ \/ Reindexed0(DictGet(converted, wk), DictGet(state_dict, wk), a)
                \/ Reindexed1(DictGet(converted, wk), DictGet(state_dict, wk), a)
             /\ \A k \in ks \ {wk, bk} : DictGet(converted, k) = DictGet(state_dict, k)

\* C3: HeatmapHead.convert_weights expands the conversion array c (length M) into
\* e of length 2M with e[2j] = 2*c[j] and e[2j+1] = 2*c[j]+1 (0-based j), applies e
\* to the "locref_head." sub-module and c itself to the "heatmap_head." sub-module.
C3_LocrefExpansion ==
    pc = "heatmap_done" =>
        /\ Len(locref_conversion) = 2 * Len(conversion)
        /\ \A j \in 1..Len(conversion) :
              /\ locref_conversion[2 * j - 1] = 2 * conversion[j]
              /\ locref_conversion[2 * j] = 2 * conversion[j] + 1
        /\ DictKeys(converted) = DictKeys(state_dict)
        /\ AppliedTo(module_prefix \o "heatmap_head.", conversion)
        /\ AppliedTo(module_prefix \o "locref_head.", locref_conversion)

\* the spec's example, (2, 0) expanded to (4, 5, 0, 1), on a head that has
\* location-refinement weights
C3_Witness ==
    /\ pc = "heatmap_done"
    /\ conversion = <<2, 0>>
    /\ locref_conversion = <<4, 5, 0, 1>>
    /\ DictHas(state_dict, module_prefix \o "locref_head.final_conv.weight")
    /\ Len(DictGet(converted, module_prefix \o "locref_head.final_conv.bias")) = 4

\* C8: without "<prefix>final_conv.weight", the layer re-indexed is the last
\* transposed convolution, the one with the highest n for which
\* "<prefix>deconv_layers.n.weight" exists: its weight along its second dimension,
\* its bias along its only one; every other entry and the key set are unchanged,
\* and with no such key the state dict is returned unchanged.
C8_LastDeconvLayerReindexed ==
    (pc = "deconv_done" /\ ~DictHas(state_dict, module_prefix \o "final_conv.weight")) =>
        LET wkey(n) == module_prefix \o "deconv_layers." \o ToString(n) \o ".weight"
            bkey(n) == module_prefix \o "deconv_layers." \o ToString(n) \o ".bias"
            present == {n \in 0..Len(state_dict) : DictHas(state_dict, wkey(n))}
        IN /\ DictKeys(converted) = DictKeys(state_dict)
           /\ IF present = {}
              THEN converted = state_dict
              ELSE LET last == CHOOSE n \in present : \A m \in present : m <= n
                   IN /\ Reindexed1(DictGet(converted, wkey(last)),
                                    DictGet(state_dict, wkey(last)), conversion)
                      /\ Reindexed0(DictGet(converted, bkey(last)),
                                    DictGet(state_dict, bkey(last)), conversion)
                      /\ \A k \in DictKeys(state_dict) \ {wkey(last), bkey(last)} :
                            DictGet(converted, k) = DictGet(state_dict, k)

----------------------------------------------------------------------------
(* model.py: PoseModel.get_loss                                            *)
(* A scalar loss is a fraction <<numerator, denominator>> in lowest terms. *)

RECURSIVE GCD(_, _)
GCD(a, b) == IF b = 0 THEN a ELSE GCD(b, a % b)

Rat(n, d) == <<n \div GCD(n, d), d \div GCD(n, d)>>

RECURSIVE SumNum(_)
SumNum(ts) == IF Len(ts) = 0 THEN 0 ELSE ts[1][1] + SumNum(Tail(ts))

\* a faulty variant: the heads' losses added up
SumOfStack(ts) == Rat(SumNum(ts), 1)

\* torch.mean(torch.stack(total_losses)), the stacked values being whole numbers
MeanOfStack(ts) == Rat(SumNum(ts), Len(ts))

\* f"{name}_{k}"
LossKey(name, k) == name \o "_" \o k

\* for k, v in head_losses.items(): losses[f"{name}_{k}"] = v
PutHeadLosses(acc, name, hl) ==
    LET put[i \in 0..Len(hl)] ==
            IF i = 0 THEN acc
            ELSE DictSet(put[i - 1], LossKey(name, hl[i][1]), hl[i][2])
    IN put[Len(hl)]

\* PoseModel.get_loss, given what each head's get_loss returns, in self.heads order
GetLoss(hls) ==
    LET loop[i \in 0..Len(hls)] ==
            IF i = 0 THEN [total_losses |-> <<>>, losses |-> <<>>]
            ELSE [total_losses |-> Append(loop[i - 1].total_losses,
                                          DictGet(hls[i][2], "total_loss")),
                  losses |-> PutHeadLosses(loop[i - 1].losses, hls[i][1], hls[i][2])]
    IN DictSet(loop[Len(hls)].losses, "total_loss",
               MeanOfStack(loop[Len(hls)].total_losses))

\* ---- inputs of the loss specification
MaxHeads == 2
MaxLoss == 2

LossHeadNames == {"bodypart", "bodypart_unique", "total"}

ExtraLossKeys == <<"heatmap", "loss", "unique_total_loss">>

\* what the head in position i returns: a total_loss of t and the extra entries
\* picked by `extras`, each with a value of its own
HeadLossesOf(i, t, extras) ==
    LET put[j \in 0..Len(ExtraLossKeys)] ==
            IF j = 0 THEN << <<"total_loss", <<t, 1>>>> >>
            ELSE IF j \in extras
                 THEN Append(put[j - 1], <<ExtraLossKeys[j], <<10 * i + j, 1>>>>)
                 ELSE put[j - 1]
    IN put[Len(ExtraLossKeys)]

\* n distinct head names, in self.heads order
HeadNameOrders(names, n) ==
    {s \in [1..n -> names] : \A i, j \in 1..n : i # j => s[i] # s[j]}

LossInit ==
    /\ pc = "call"
    /\ state_dict = NoValue
    /\ \E n \in 1..MaxHeads :
          \E names \in HeadNameOrders(LossHeadNames, n),
             ts \in [1..n -> 1..MaxLoss],
             ex \in [1..n -> SUBSET (1..Len(ExtraLossKeys))] :
                head_losses = [i \in 1..n |-> <<names[i], HeadLossesOf(i, ts[i], ex[i])>>]
    /\ losses = <<>>
    /\ FilterIdle /\ DeconvIdle /\ ConvertIdle /\ BuildIdle /\ DetectorIdle

\* model.get_loss(outputs, targets)
CallGetLoss ==
    /\ pc = "call"
    /\ losses' = GetLoss(head_losses)
    /\ pc' = "done"
    /\ UNCHANGED <<state_dict, head_losses, filterVars, deconvVars, convertVars, buildVars, detectorVars>>

LossNext == CallGetLoss

SpecLoss == LossInit /\ [][LossNext]_vars

\* the (head position, key) pairs of the heads' loss mappings
LossPairs ==
    {p \in (1..Len(head_losses)) \X
             UNION {DictKeys(head_losses[i][2]) : i \in 1..Len(head_losses)} :
        DictHas(head_losses[p[1]][2], p[2])}

ComposedKey(p) == head_losses[p[1]][1] \o "_" \o p[2]

KeysAsClaimed ==
    DictKeys(losses) = {"total_loss"} \cup {ComposedKey(p) : p \in LossPairs}

\* total_loss * (number of heads) = sum of the heads' total_loss values
MeanAsClaimed ==
    LET t == DictGet(losses, "total_loss")
        sum == SumNum([i \in 1..Len(head_losses) |-> DictGet(head_losses[i][2], "total_loss")])
    IN t[1] * Len(head_losses) = t[2] * sum

\* C4, as stated: the keys are exactly "total_loss" plus "{head_name}_{k}" for every
\* head and every key k of its loss mapping, each prefixed value equals the head's
\* value for k, and the top-level total_loss is the mean of the heads' total_loss.
C4_EveryPrefixedValueKept ==
    pc = "done" =>
        /\ KeysAsClaimed
        /\ \A p \in LossPairs :
              DictGet(losses, ComposedKey(p)) = DictGet(head_losses[p[1]][2], p[2])
        /\ MeanAsClaimed

\* C4, amended: the keys are as stated and the top-level total_loss is the mean;
\* a prefixed key holds the head's value for k unless a later head composes the
\* same string or the string is "total_loss" itself (which holds the mean).
C4_PrefixedValuesLastWriterWins ==
    pc = "done" =>
        /\ KeysAsClaimed
        /\ \A p \in LossPairs :
              (/\ ComposedKey(p) # "total_loss"
               /\ \A q \in LossPairs : q[1] > p[1] => ComposedKey(q) # ComposedKey(p))
              => DictGet(losses, ComposedKey(p)) = DictGet(head_losses[p[1]][2], p[2])
        /\ MeanAsClaimed

\* two heads with different total_loss values, both prefixed entries present and
\* the mean a proper fraction
C4_Witness ==
    /\ pc = "done"
    /\ Len(head_losses) = 2
    /\ DictHas(losses, "bodypart_total_loss")
    /\ DictHas(losses, "bodypart_unique_total_loss")
    /\ DictGet(losses, "bodypart_total_loss") # DictGet(losses, "bodypart_unique_total_loss")
    /\ DictGet(losses, "total_loss") = <<3, 2>>

----------------------------------------------------------------------------
(* model.py: PoseModel.build                                               *)
(* cfg and its backbone, neck and head entries are records (a key a dict   *)
(* lacks is a field the record lacks); the dicts build iterates over       *)
(* (cfg["heads"], a criterion mapping, a criterion config) are dicts as    *)
(* above.  A registry's build is recorded by the configuration it is given.*)

\* d[k] = v on a record
SetField(d, k, v) == [f \in DOMAIN d \cup {k} |-> IF f = k THEN v ELSE d[f]]

\* a faulty variant: the flag forced whether or not weights are to be loaded
ForcePretrainedAlways(c, wi) ==
    [c EXCEPT !.backbone = SetField(@, "pretrained", TRUE)]

\* if weight_init is None: cfg["backbone"]["pretrained"] = True
ForcePretrained(c, wi) ==
    IF wi = None
    THEN [c EXCEPT !.backbone = SetField(@, "pretrained", TRUE)]
    ELSE c

Built(registry, c) == [registry |-> registry, cfg |-> c]

\* a faulty variant: the sub-loss config handed over with its weight
KeepWeight(criterion_cfg) == criterion_cfg

\* {k: v for k, v in criterion_cfg.items() if k != "weight"}
StripWeight(criterion_cfg) ==
    LET acc[i \in 0..Len(criterion_cfg)] ==
            IF i = 0 THEN <<>>
            ELSE IF criterion_cfg[i][1] # "weight"
                 THEN DictSet(acc[i - 1], criterion_cfg[i][1], criterion_cfg[i][2])
                 ELSE acc[i - 1]
    IN acc[Len(criterion_cfg)]

\* criterion_cfg.get("weight", 1.0)
DefaultWeight == 1
WeightOf(criterion_cfg) ==
    IF DictHas(criterion_cfg, "weight") THEN DictGet(criterion_cfg, "weight")
    ELSE DefaultWeight

\* the body of the loop over cfg["heads"], up to HEADS.build: the head config
\* handed to HEADS.build and the registry calls made on the way
ResolveHead(head_cfg) ==
    IF DictHas(head_cfg.criterion, "type")
    THEN [head_cfg |->
              [head_cfg EXCEPT
                  !.criterion = Built("CRITERIONS", head_cfg.criterion),
                  !.target_generator = Built("TARGET_GENERATORS", head_cfg.target_generator),
                  !.predictor = Built("PREDICTORS", head_cfg.predictor)],
          criterion_calls |-> <<head_cfg.criterion>>,
          aggregator_calls |-> <<>>]
    ELSE LET c == head_cfg.criterion
             loop[i \in 0..Len(c)] ==
                 IF i = 0 THEN [weights |-> <<>>, criterions |-> <<>>, calls |-> <<>>]
                 ELSE [weights |-> DictSet(loop[i - 1].weights, c[i][1], WeightOf(c[i][2])),
                       criterions |-> DictSet(loop[i - 1].criterions, c[i][1],
                                              Built("CRITERIONS", StripWeight(c[i][2]))),
                       calls |-> Append(loop[i - 1].calls, StripWeight(c[i][2]))]
             aggregator_cfg == [type |-> "WeightedLossAggregator",
                                weights |-> loop[Len(c)].weights]
         IN [head_cfg |->
                 SetField([head_cfg EXCEPT
                              !.criterion = loop[Len(c)].criterions,
                              !.target_generator =
                                   Built("TARGET_GENERATORS", head_cfg.target_generator),
                              !.predictor = Built("PREDICTORS", head_cfg.predictor)],
                          "aggregator", Built("LOSS_AGGREGATORS", aggregator_cfg)),
             criterion_calls |-> loop[Len(c)].calls,
             aggregator_calls |-> <<aggregator_cfg>>]

\* ---- inputs of the build specification
BackboneConfigs ==
    {[model_name |-> "resnet_50"],
     [model_name |-> "resnet_50", pretrained |-> TRUE],
     [model_name |-> "resnet_50", pretrained |-> FALSE]}

NeckConfigs == {None, [type |-> "Transformer"]}

CriterionConfigs ==
    { << <<"type", "WeightedMSECriterion">> >>,
      << <<"heatmap", << <<"type", "WeightedBCECriterion">>, <<"weight", 2>> >> >>,
         <<"locref", << <<"type", "WeightedHuberCriterion">> >> >> >>,
      << <<"heatmap", << <<"type", "WeightedBCECriterion">> >> >>,
         <<"locref", << <<"type", "WeightedHuberCriterion">>, <<"weight", 5>> >> >> >> }

HeadConfigs ==
    { [type |-> "HeatmapHead",
       criterion |-> c,
       target_generator |-> [type |-> "HeatmapPlateauGenerator"],
       predictor |-> [type |-> "HeatmapPredictor"]] : c \in CriterionConfigs }

BuildHeadNames == {"bodypart", "bodypart_unique"}

HeadsConfigs ==
    UNION {
        { [i \in 1..n |-> <<names[i], hc[i]>>] :
            names \in {s \in [1..n -> BuildHeadNames] :
                          \A i, j \in 1..n : i # j => s[i] # s[j]},
            hc \in [1..n -> HeadConfigs] }
        : n \in 1..MaxHeads }

BuildConfigs ==
    { [backbone |-> b, neck |-> n, heads |-> h] :
        b \in BackboneConfigs, n \in NeckConfigs, h \in HeadsConfigs }

WeightInits ==
    { [dataset |-> "superanimal_quadruped", with_decoder |-> d, conversion_array |-> c] :
        d \in BOOLEAN, c \in {<<1, 0>>, <<1>>} }

\* the heads a snapshot was trained with: two keypoints each
SnapshotHeads ==
    { [heatmap_head |-> DeconvModule(h.channels, h.kernel_size, h.strides, h.final_conv),
       locref_head |-> None] : h \in {DeconvConfig(1, FALSE, 2)} }
    \cup
    { [heatmap_head |-> DeconvModule(h.channels, h.kernel_size, h.strides, h.final_conv),
       locref_head |-> DeconvModule(l.channels, l.kernel_size, l.strides, l.final_conv)] :
        h \in {DeconvConfig(1, TRUE, 2)}, l \in {DeconvConfig(1, FALSE, 4)} }

RECURSIVE HeadsEntries(_, _)
HeadsEntries(names, head) ==
    IF Len(names) = 0 THEN <<>>
    ELSE HeatmapHeadStateDict("heads." \o names[1] \o ".", head, 30 * Len(names))
         \o HeadsEntries(Tail(names), head)

\* snapshot["model"]: the state dict of a PoseModel, with or without a neck, with
\* one or both heads
Snapshots ==
    { << <<"backbone.conv1.weight", Tensor2(1, 2, 2)>> >>
      \o (IF with_neck THEN << <<"neck.proj.weight", Tensor2(2, 2, 2)>> >> ELSE <<>>)
      \o HeadsEntries(names, head) :
        with_neck \in BOOLEAN,
        names \in {<<"bodypart">>, <<"bodypart", "bodypart_unique">>},
        head \in SnapshotHeads }

BuildInit ==
    /\ pc = "start"
    /\ cfg \in BuildConfigs
    /\ caller_cfg = cfg
    /\ weight_init \in {None} \cup WeightInits
    /\ state_dict \in (IF weight_init = None THEN {<<>>} ELSE Snapshots)
    /\ backbone = None
    /\ neck = None
    /\ heads = <<>>
    /\ criterions_built = <<>>
    /\ aggregators_built = <<>>
    /\ model = None
    /\ loaded = <<>>
    /\ FilterIdle /\ DeconvIdle /\ ConvertIdle /\ LossIdle /\ DetectorIdle

\* lines 151-154
BuildBackbone ==
    /\ pc = "start"
    /\ cfg' = ForcePretrained(cfg, weight_init)
    /\ backbone' = Built("BACKBONES", ForcePretrained(cfg, weight_init).backbone)
    /\ pc' = "neck"
    /\ UNCHANGED <<state_dict, caller_cfg, weight_init, neck, heads, criterions_built,
                   aggregators_built, model, loaded,
                   filterVars, deconvVars, convertVars, lossVars, detectorVars>>

\* lines 156-158
BuildNeck ==
    /\ pc = "neck"
    /\ neck' = IF cfg.neck # None THEN Built("NECKS", cfg.neck) ELSE None
    /\ pc' = "heads"
    /\ UNCHANGED <<state_dict, caller_cfg, cfg, weight_init, backbone, heads,
                   criterions_built, aggregators_built, model, loaded,
                   filterVars, deconvVars, convertVars, lossVars, detectorVars>>

\* one turn of the loop of lines 161-183; head_cfg is a deep copy, so cfg is not written
BuildHead ==
    /\ pc = "heads"
    /\ Len(heads) < Len(cfg.heads)
    /\ LET name == cfg.heads[Len(heads) + 1][1]
           r == ResolveHead(cfg.heads[Len(heads) + 1][2])
       IN /\ heads' = Append(heads, <<name, Built("HEADS", r.head_cfg)>>)
          /\ criterions_built' = Append(criterions_built, r.criterion_calls)
          /\ aggregators_built' = Append(aggregators_built, r.aggregator_calls)
    /\ UNCHANGED <<pc, state_dict, caller_cfg, cfg, weight_init, backbone, neck,
                   model, loaded, filterVars, deconvVars, convertVars, lossVars, detectorVars>>

\* line 185, then line 187's test (line 223 when no weights are to be loaded)
Assemble ==
    /\ pc = "heads"
    /\ Len(heads) = Len(cfg.heads)
    /\ model' = [type |-> "PoseModel", backbone |-> backbone, neck |-> neck,
                 heads |-> heads]
    /\ pc' = IF weight_init # None THEN "load_backbone" ELSE "done"
    /\ UNCHANGED <<state_dict, caller_cfg, cfg, weight_init, backbone, neck, heads,
                   criterions_built, aggregators_built, loaded,
                   filterVars, deconvVars, convertVars, lossVars, detectorVars>>

\* line 203
LoadBackbone ==
    /\ pc = "load_backbone"
    /\ loaded' = DictSet(loaded, "backbone", filter_state_dict(state_dict, "backbone"))
    /\ pc' = "load_neck"
    /\ UNCHANGED <<state_dict, caller_cfg, cfg, weight_init, backbone, neck, heads,
                   criterions_built, aggregators_built, model,
                   filterVars, deconvVars, convertVars, lossVars, detectorVars>>

\* lines 206-207
LoadNeck ==
    /\ pc = "load_neck"
    /\ loaded' = IF model.neck # None
                 THEN DictSet(loaded, "neck", filter_state_dict(state_dict, "neck"))
                 ELSE loaded
    /\ pc' = "load_heads"
    /\ UNCHANGED <<state_dict, caller_cfg, cfg, weight_init, backbone, neck, heads,
                   criterions_built, aggregators_built, model,
                   filterVars, deconvVars, convertVars, lossVars, detectorVars>>

\* the heads whose load_state_dict has been called
HeadsLoaded == Cardinality({k \in DictKeys(loaded) : StartsWith(k, "heads.")})

\* one turn of the loop of lines 213-221
LoadHead ==
    /\ pc = "load_heads"
    /\ weight_init.with_decoder
    /\ HeadsLoaded < Len(model.heads)
    /\ LET name == model.heads[HeadsLoaded + 1][1]
           heads_state_dict == filter_state_dict(state_dict, "heads")
       IN loaded' = DictSet(loaded, "heads." \o name,
                            HeatmapConvertWeights(
                                filter_state_dict(heads_state_dict, name), "",
                                weight_init.conversion_array))
    /\ UNCHANGED <<pc, state_dict, caller_cfg, cfg, weight_init, backbone, neck, heads,
                   criterions_built, aggregators_built, model,
                   filterVars, deconvVars, convertVars, lossVars, detectorVars>>

\* line 223, after the weights have been loaded
ReturnModel ==
    /\ pc = "load_heads"
    /\ ~weight_init.with_decoder \/ HeadsLoaded = Len(model.heads)
    /\ pc' = "done"
    /\ UNCHANGED <<state_dict, caller_cfg, cfg, weight_init, backbone, neck, heads,
                   criterions_built, aggregators_built, model, loaded,
                   filterVars, deconvVars, convertVars, lossVars, detectorVars>>

BuildNext ==
    \/ BuildBackbone
    \/ BuildNeck
    \/ BuildHead
    \/ Assemble
    \/ LoadBackbone
    \/ LoadNeck
    \/ LoadHead
    \/ ReturnModel

SpecBuild == BuildInit /\ [][BuildNext]_vars

\* C5: with weight_init = None the backbone is constructed with pretrained = true
\* whatever the caller's config gave (true, false or nothing); with a weight_init
\* the backbone gets the caller's own value, not a forced one.
C5_PretrainedForcedWithoutWeightInit ==
    pc # "start" =>
        IF weight_init = None
        THEN /\ "pretrained" \in DOMAIN backbone.cfg
             /\ backbone.cfg.pretrained = TRUE
             /\ \A f \in DOMAIN caller_cfg.backbone \ {"pretrained"} :
                    backbone.cfg[f] = caller_cfg.backbone[f]
        ELSE backbone.cfg = caller_cfg.backbone

\* a caller who asked for pretrained = false and no weight_init got pretrained = true
C5_Witness ==
    /\ pc = "done"
    /\ weight_init = None
    /\ "pretrained" \in DOMAIN caller_cfg.backbone
    /\ caller_cfg.backbone.pretrained = FALSE
    /\ backbone.cfg.pretrained = TRUE

\* the entries of sd whose first dot-separated segment is m, without that segment
FirstSegmentFilter(sd, m) ==
    LET acc[i \in 0..Len(sd)] ==
            IF i = 0 THEN <<>>
            ELSE IF Split(sd[i][1])[1] = m
                 THEN DictSet(acc[i - 1], Join(Tail(Split(sd[i][1]))), sd[i][2])
                 ELSE acc[i - 1]
    IN acc[Len(sd)]

\* weights are loaded only into an assembled model; once build has returned with a
\* weight_init, the backbone has been loaded with F(snapshot, "backbone"), the neck
\* with F(snapshot, "neck") iff the model has one, and every head h with
\* convert_weights(F(F(snapshot, "heads"), h)) iff with_decoder is set
LoadsAsClaimed(F(_, _)) ==
    /\ loaded # <<>> => model # None
    /\ weight_init = None => loaded = <<>>
    /\ (pc = "done" /\ weight_init # None) =>
          /\ DictHas(loaded, "backbone")
          /\ AsMap(DictGet(loaded, "backbone")) = AsMap(F(state_dict, "backbone"))
          /\ DictHas(loaded, "neck") <=> model.neck # None
          /\ DictHas(loaded, "neck") =>
                AsMap(DictGet(loaded, "neck")) = AsMap(F(state_dict, "neck"))
          /\ \A i \in 1..Len(model.heads) :
                LET h == model.heads[i][1]
                IN IF weight_init.with_decoder
                   THEN /\ DictHas(loaded, "heads." \o h)
                        /\ AsMap(DictGet(loaded, "heads." \o h)) =
                               AsMap(HeatmapConvertWeights(F(F(state_dict, "heads"), h), "",
                                                           weight_init.conversion_array))
                   ELSE ~DictHas(loaded, "heads." \o h)

\* C9: with a weight_init, weights are loaded only after the model is assembled;
\* the backbone always from the snapshot entries under "backbone", the neck from
\* those under "neck" iff the model has a neck, and the heads iff with_decoder, each
\* head h from exactly the entries under "heads" then under h, passed through
\* convert_weights; with with_decoder false no head is overwritten.
C9_LoadsExactlyTheModuleEntries == LoadsAsClaimed(FirstSegmentFilter)

\* the same order and conditions hold of the entries filter_state_dict selects
C9_LoadOrderAndConditions == LoadsAsClaimed(filter_state_dict)

\* C10: a criterion config with a `type` key gives exactly one criterion and no
\* aggregator; otherwise one criterion per named sub-loss, built from the sub-loss's
\* config without its `weight` key, and exactly one WeightedLossAggregator whose
\* weights map every sub-loss name to its configured weight, or 1.0 when it has
\* none; the caller's head config is not modified.
C10_CriterionResolution ==
    /\ \A i \in 1..Len(heads) :
          LET c == caller_cfg.heads[i][2].criterion
          IN IF DictHas(c, "type")
             THEN /\ criterions_built[i] = <<c>>
                  /\ aggregators_built[i] = <<>>
             ELSE /\ Len(criterions_built[i]) = Len(c)
                  /\ \A j \in 1..Len(c) :
                        /\ DictKeys(criterions_built[i][j]) = DictKeys(c[j][2]) \ {"weight"}
                        /\ \A k \in DictKeys(criterions_built[i][j]) :
                              DictGet(criterions_built[i][j], k) = DictGet(c[j][2], k)
                  /\ Len(aggregators_built[i]) = 1
                  /\ aggregators_built[i][1].type = "WeightedLossAggregator"
                  /\ DictKeys(aggregators_built[i][1].weights) = DictKeys(c)
                  /\ \A j \in 1..Len(c) :
                        DictGet(aggregators_built[i][1].weights, c[j][1]) =
                            IF DictHas(c[j][2], "weight") THEN DictGet(c[j][2], "weight")
                            ELSE 1
    /\ pc # "start" => cfg.heads = caller_cfg.heads

\* a model with one head of each kind: a single typed criterion, and two named
\* sub-losses of which one has a configured weight
C10_Witness ==
    /\ pc = "done"
    /\ Len(heads) = 2
    /\ DictHas(caller_cfg.heads[1][2].criterion, "type")
    /\ aggregators_built[1] = <<>>
    /\ ~DictHas(caller_cfg.heads[2][2].criterion, "type")
    /\ Len(criterions_built[2]) = 2
    /\ AsMap(aggregators_built[2][1].weights) = [heatmap |-> 2, locref |-> 1]

----------------------------------------------------------------------------
(* detectors/base.py: _build_detector                                      *)
(* cfg is a record, as in PoseModel.build; kwargs is a dict.  The detector *)
(* is recorded by the configuration and parameters build_from_cfg was      *)
(* given and by its state dict.  The collaborators outside this file are   *)
(* modelled by their contracts: get_config_model_paths answers a path that *)
(* is a function of its three arguments, torch.load answers the file       *)
(* stored under a path, load_state_dict replaces the module's state.       *)

\* a faulty variant: the configured flag is never overridden
KeepPretrained(c, wi) == c

\* if weight_init is not None: cfg["pretrained"] = False
DisablePretrained(c, wi) ==
    IF wi # None THEN SetField(c, "pretrained", FALSE) ELSE c

\* build_from_cfg(cfg, **kwargs), with the parameters the constructor initialised
build_from_cfg(c, kw, initial) ==
    [built |-> Built("DETECTORS", c), kwargs |-> kw, state_dict |-> initial]

\* modelzoo_utils.get_config_model_paths: model config, project config, pose
\* model path, detector path; a path is identified by what it was resolved from
get_config_model_paths(project_name, pose_model_type, detector_type) ==
    <<None, None,
      [project_name |-> project_name, pose_model_type |-> pose_model_type],
      [project_name |-> project_name, pose_model_type |-> pose_model_type,
       detector_type |-> detector_type]>>

\* the arguments of the call at lines 42-46; `_, _, _, snapshot_path = ...`
ResolveSnapshotPath(wi) ==
    get_config_model_paths(wi.dataset, "hrnetw32", "fasterrcnn")[4]

\* torch.load(snapshot_path, map_location="cpu")
torch_load(files, path) == files[path]

\* detector.load_state_dict(state_dict)
load_state_dict(d, sd) == [d EXCEPT !.state_dict = sd]

\* ---- inputs of the detector specification
DetectorVariants == {"fasterrcnn_mobilenet_v3_large_fpn", "fasterrcnn_resnet50_fpn_v2"}

DetectorConfigs ==
    { [type |-> "FasterRCNN", variant |-> v] : v \in DetectorVariants }
    \cup
    { [type |-> "FasterRCNN", variant |-> v, pretrained |-> p] :
        v \in DetectorVariants, p \in BOOLEAN }

DetectorKwargs == { <<>>, << <<"box_score_thresh", 1>> >> }

Datasets == {"superanimal_quadruped", "superanimal_topviewmouse"}

DetectorWeightInits ==
    { [dataset |-> d, with_decoder |-> w, conversion_array |-> <<1, 0>>] :
        d \in Datasets, w \in BOOLEAN }

\* the state dict of a detector; tag tells one set of parameter values from another
DetectorStateDict(tag) ==
    << <<"model.backbone.body.0.0.weight", Tensor2(tag, 2, 2)>>,
       <<"model.roi_heads.box_predictor.cls_score.bias", Tensor1(tag, 2)>> >>

\* what a constructor leaves in the parameters: a random initialisation, or the
\* weights the detection library ships
InitialStateDicts == {DetectorStateDict(0), DetectorStateDict(9)}

\* the files a path can be resolved to, each holding a snapshot of its own
ZooPaths ==
    { get_config_model_paths(d, p, t)[4] :
        d \in Datasets, p \in {"hrnetw32"}, t \in {"fasterrcnn", "ssdlite"} }

SnapshotFiles ==
    { [model |-> DetectorStateDict(t), metadata |-> [epoch |-> t]] :
        t \in 1..Cardinality(ZooPaths) }

ModelZoos ==
    { f \in [ZooPaths -> SnapshotFiles] :
        \A p, q \in ZooPaths : p # q => f[p] # f[q] }

DetectorInit ==
    /\ pc = "start"
    /\ state_dict = NoValue
    /\ cfg \in DetectorConfigs
    /\ caller_cfg = cfg
    /\ weight_init \in {None} \cup DetectorWeightInits
    /\ kwargs \in DetectorKwargs
    /\ modelzoo \in ModelZoos
    /\ detector = None
    /\ snapshot_path = None
    /\ snapshot = None
    /\ backbone = NoValue /\ neck = NoValue /\ heads = NoValue
    /\ criterions_built = NoValue /\ aggregators_built = NoValue
    /\ model = NoValue /\ loaded = NoValue
    /\ FilterIdle /\ DeconvIdle /\ ConvertIdle /\ LossIdle

detectorRest == <<state_dict, caller_cfg, weight_init, backbone, neck, heads,
                  criterions_built, aggregators_built, model, loaded, kwargs, modelzoo,
                  filterVars, deconvVars, convertVars, lossVars>>

\* lines 36-39
BuildFromCfg ==
    /\ pc = "start"
    /\ cfg' = DisablePretrained(cfg, weight_init)
    /\ \E initial \in InitialStateDicts :
          detector' = build_from_cfg(DisablePretrained(cfg, weight_init), kwargs, initial)
    /\ pc' = "built"
    /\ UNCHANGED <<snapshot_path, snapshot, detectorRest>>

\* lines 41-46
GetConfigModelPaths ==
    /\ pc = "built"
    /\ weight_init # None
    /\ snapshot_path' = ResolveSnapshotPath(weight_init)
    /\ pc' = "resolved"
    /\ UNCHANGED <<cfg, detector, snapshot, detectorRest>>

\* line 47
TorchLoad ==
    /\ pc = "resolved"
    /\ snapshot' = torch_load(modelzoo, snapshot_path)
    /\ pc' = "read"
    /\ UNCHANGED <<cfg, detector, snapshot_path, detectorRest>>

\* line 48
LoadStateDict ==
    /\ pc = "read"
    /\ detector' = load_state_dict(detector, snapshot.model)
    /\ pc' = "loaded"
    /\ UNCHANGED <<cfg, snapshot_path, snapshot, detectorRest>>

\* line 50
ReturnDetector ==
    /\ \/ pc = "built" /\ weight_init = None
       \/ pc = "loaded"
    /\ pc' = "done"
    /\ UNCHANGED <<cfg, detector, snapshot_path, snapshot, detectorRest>>

DetectorNext ==
    \/ BuildFromCfg
    \/ GetConfigModelPaths
    \/ TorchLoad
    \/ LoadStateDict
    \/ ReturnDetector

SpecDetector == DetectorInit /\ [][DetectorNext]_vars

\* the snapshot file the claim names for a weight initialisation
ClaimedSnapshot ==
    modelzoo[[project_name |-> weight_init.dataset,
              pose_model_type |-> "hrnetw32",
              detector_type |-> "fasterrcnn"]]

\* what holds of every state of a call of _build_detector
DetectorAsClaimed ==
    /\ detector = None => snapshot_path = None /\ snapshot = None
    /\ (detector # None /\ weight_init # None) =>
          /\ DOMAIN detector.built.cfg = DOMAIN caller_cfg \cup {"pretrained"}
          /\ detector.built.cfg.pretrained = FALSE
          /\ \A f \in DOMAIN caller_cfg \ {"pretrained"} :
                detector.built.cfg[f] = caller_cfg[f]
    /\ (detector # None /\ weight_init = None) => detector.built.cfg = caller_cfg
    /\ weight_init = None => snapshot_path = None /\ snapshot = None
    /\ snapshot # None => snapshot = ClaimedSnapshot
    /\ (pc = "done" /\ weight_init # None) =>
          detector.state_dict = ClaimedSnapshot.model

\* what holds of every step of a call of _build_detector
DetectorStepAsClaimed ==
    /\ detector # None =>
          \/ detector' = detector
          \/ /\ weight_init # None
             /\ detector' = [detector EXCEPT !.state_dict = ClaimedSnapshot.model]
    /\ pc' = "done" => pc \in {"built", "loaded"}
    /\ (pc' = "done" /\ pc = "built") => weight_init = None

\* C11: when a weight_init is supplied, the detector is constructed with
\* pretrained = false whatever the configured value (the other keys as configured),
\* and only after construction its whole state is overwritten from the snapshot
\* resolved by (weight_init.dataset, "hrnetw32", "fasterrcnn"); when weight_init is
\* None the configured pretrained value (or its absence) is passed through
\* unchanged and no snapshot is resolved or loaded.
C11_DetectorBuildHook ==
    /\ []DetectorAsClaimed
    /\ [][DetectorStepAsClaimed]_vars

\* a detector configured with pretrained = True, built with a weight
\* initialisation, constructed with pretrained = False and returned with the
\* parameters of the dataset's snapshot in place of the constructor's
C11_Witness ==
    /\ pc = "done"
    /\ weight_init # None
    /\ weight_init.dataset = "superanimal_topviewmouse"
    /\ "pretrained" \in DOMAIN caller_cfg
    /\ caller_cfg.pretrained = TRUE
    /\ detector.built.cfg.pretrained = FALSE
    /\ snapshot_path.detector_type = "fasterrcnn"
    /\ detector.state_dict = snapshot.model
    /\ detector.state_dict \notin InitialStateDicts

====
